---- MODULE Spec2Model ----
(***************************************************************************)
(* Model of the MagicHome LED client (src/src/magic_home.rs): the message  *)
(* encoder, the checksum, the status decoder and the session's send path   *)
(* over one TCP connection.                                                *)
(***************************************************************************)
EXTENDS Integers, Sequences, FiniteSets, TLC

\* ------------------------------------------------------------------ bounds
\* Number of set_rgb / perform_action calls made on one session.
MaxOps == 2
\* Longest byte sequence handed to calc_checksum on its own.
MaxLen == 3
\* Number of calls made on one session by the caller that repeats queries.
MaxSeqOps == 3

\* ------------------------------------------------------- program constants
\* A response buffer one byte short of the device's reply.
ShortBufferSize == 14 - 1

STATUS_BUFFER_SIZE == 14
DEFAULT_PORT == "5577"

STATUS == <<129, 138, 139>>
ON == <<113, 35, 15>>
OFF == <<113, 36, 15>>
CHAOS == <<49, 5>>
AMBIENT == <<37, 50>>
RAINBOW == <<37, 1>>
RED == <<255, 0, 0>>
GREEN == <<0, 255, 0>>
BLUE == <<0, 0, 255>>
LIME == <<255, 255, 0>>
YELLOW == <<255, 110, 0>>
PINK == <<255, 0, 170>>
CYAN == <<0, 255, 255>>
PURPLE == <<170, 0, 255>>
ORANGE == <<255, 24, 0>>
WHITE == <<255, 255, 255>>

\* enum Message: a tagged value carrying a Control, Function or Rgb tuple.
Message(kind, b) == [kind |-> kind, b |-> b]

\* enum Actions.
Actions ==
    {"Status", "On", "Off", "Chaos", "Rainbow", "Ambient", "Red", "Green",
     "Blue", "Yellow", "Orange", "Lime", "Purple", "Pink", "Cyan", "White"}

\* The match with the Ambient and Rainbow arms exchanged.
ActionMessageSwapped(action) ==
    CASE action = "Status" -> Message("Control", STATUS)
      [] action = "On" -> Message("Control", ON)
      [] action = "Off" -> Message("Control", OFF)
      [] action = "Chaos" -> Message("Function", CHAOS)
      [] action = "Ambient" -> Message("Function", RAINBOW)
      [] action = "Rainbow" -> Message("Function", AMBIENT)
      [] action = "Red" -> Message("Color", RED)
      [] action = "Green" -> Message("Color", GREEN)
      [] action = "Blue" -> Message("Color", BLUE)
      [] action = "Lime" -> Message("Color", LIME)
      [] action = "Yellow" -> Message("Color", YELLOW)
      [] action = "Pink" -> Message("Color", PINK)
      [] action = "Cyan" -> Message("Color", CYAN)
      [] action = "Purple" -> Message("Color", PURPLE)
      [] action = "Orange" -> Message("Color", ORANGE)
      [] action = "White" -> Message("Color", WHITE)

\* The match of perform_action: the message each action is dispatched to.
ActionMessage(action) ==
    CASE action = "Status" -> Message("Control", STATUS)
      [] action = "On" -> Message("Control", ON)
      [] action = "Off" -> Message("Control", OFF)
      [] action = "Chaos" -> Message("Function", CHAOS)
      [] action = "Ambient" -> Message("Function", AMBIENT)
      [] action = "Rainbow" -> Message("Function", RAINBOW)
      [] action = "Red" -> Message("Color", RED)
      [] action = "Green" -> Message("Color", GREEN)
      [] action = "Blue" -> Message("Color", BLUE)
      [] action = "Lime" -> Message("Color", LIME)
      [] action = "Yellow" -> Message("Color", YELLOW)
      [] action = "Pink" -> Message("Color", PINK)
      [] action = "Cyan" -> Message("Color", CYAN)
      [] action = "Purple" -> Message("Color", PURPLE)
      [] action = "Orange" -> Message("Color", ORANGE)
      [] action = "White" -> Message("Color", WHITE)

\* ---------------------------------------------------------------- checksum
\* A u8 addition that saturates at 255 instead of wrapping.
saturating_add(a, b) == IF a + b > 255 THEN 255 ELSE a + b

\* u8::wrapping_add.
wrapping_add(a, b) == (a + b) % 256

\* calc_checksum: the loop folds the bytes left to right into an u8
\* accumulator that starts at 0, wrapping at every step.
RECURSIVE ChecksumLoop(_, _, _)
ChecksumLoop(bytes, i, checksum) ==
    IF i > Len(bytes) THEN checksum
    ELSE ChecksumLoop(bytes, i + 1, wrapping_add(bytes[i], checksum))

calc_checksum(bytes) == ChecksumLoop(bytes, 1, 0)

\* ----------------------------------------------------------------- encoder
\* The Color arm with the payload in r, g, b order.
FrameBodyRgbOrder(message) ==
    CASE message.kind = "Color" ->
           <<49, message.b[1], message.b[2], message.b[3], 255, 0, 15>>
      [] message.kind = "Function" -> <<97, message.b[1], message.b[2], 15>>
      [] message.kind = "Control" -> <<message.b[1], message.b[2], message.b[3]>>

\* The vec! each arm of send_to_device's match builds, before the checksum.
FrameBody(message) ==
    CASE message.kind = "Color" ->
           <<49, message.b[1], message.b[3], message.b[2], 255, 0, 15>>
      [] message.kind = "Function" -> <<97, message.b[1], message.b[2], 15>>
      [] message.kind = "Control" -> <<message.b[1], message.b[2], message.b[3]>>

\* The frame sent without the push of the checksum.
PushChecksumOmitted(bytes) == bytes

\* bytes.push(checksum) after calc_checksum(bytes.as_slice()).
PushChecksum(bytes) == Append(bytes, calc_checksum(bytes))


\* ---------------------------------------------------------- status decoder
\* u8 subtraction a - b.  When b > a the build decides: with overflow checks
\* (the default of a debug build) it aborts, without them it wraps.
sub_u8(a, b) ==
    IF b <= a THEN {[panic |-> FALSE, val |-> a - b]}
    ELSE {[panic |-> TRUE, val |-> 0],
          [panic |-> FALSE, val |-> (a - b + 256) % 256]}

\* struct Status; speed is an Option: <<>> is None, <<v>> is Some(v).
MkStatus(power, color, mode, speed) ==
    [power |-> power, color |-> color, mode |-> mode, speed |-> speed]

\* The match with the speed computed in the catch-all arm too.
ParseModeSpeedInAllArms(mode, speed) ==
    CASE mode = 97 -> {[panic |-> FALSE, mode |-> "static", speed |-> <<>>]}
      [] mode = 49 ->
           {[panic |-> s.panic, mode |-> "strobe", speed |-> <<s.val>>] :
               s \in sub_u8(100, speed)}
      [] mode = 37 ->
           {[panic |-> s.panic, mode |-> "cycle", speed |-> <<s.val>>] :
               s \in sub_u8(100, speed)}
      [] OTHER ->
           {[panic |-> s.panic, mode |-> "unknown", speed |-> <<s.val>>] :
               s \in sub_u8(100, speed)}

\* The match on the mode byte: the set of (mode, speed) pairs, or an abort,
\* the build can produce.
ParseMode(mode, speed) ==
    CASE mode = 97 -> {[panic |-> FALSE, mode |-> "static", speed |-> <<>>]}
      [] mode = 49 ->
           {[panic |-> s.panic, mode |-> "strobe", speed |-> <<s.val>>] :
               s \in sub_u8(100, speed)}
      [] mode = 37 ->
           {[panic |-> s.panic, mode |-> "cycle", speed |-> <<s.val>>] :
               s \in sub_u8(100, speed)}
      [] OTHER -> {[panic |-> FALSE, mode |-> "unknown", speed |-> <<>>]}

\* let power = *power == 35, with power bound to buffer[2] (0-based).
ParsePower(buffer) == buffer[3] = 35

\* let color = (*r, *g, *b), with r, b, g bound to buffer[6], [7], [8].
ParseColor(buffer) == <<buffer[7], buffer[9], buffer[8]>>

\* Status::from(&[u8; 14]): every outcome the build can produce; an outcome
\* is an abort (panic) or a Status, held as an Option in .status.
StatusFrom(buffer) ==
    {IF m.panic THEN [panic |-> TRUE, status |-> <<>>]
     ELSE [panic |-> FALSE,
           status |-> <<MkStatus(ParsePower(buffer), ParseColor(buffer),
                                 m.mode, m.speed)>>] :
        m \in ParseMode(buffer[4], buffer[6])}

\* ------------------------------------------------------------ sample inputs
\* Signed inputs of set_rgb: below, at and above the ends of 0..=255.
RgbInputs == {-1, 0, 255, 256}

\* A 14-byte reply; bytes 10..12 (0-based) share one value.
MkBuffer(b0, b1, power, mode, b4, speed, r, b, g, b9, fill, b13) ==
    <<b0, b1, power, mode, b4, speed, r, b, g, b9, fill, fill, fill, b13>>

\* Replies the device sends on the session: static, strobe within range,
\* cycle with a speed byte above 100, an unknown mode while off, and an
\* unknown mode with a speed byte above 100.
StatusReplies ==
    {MkBuffer(129, 37, 35, 97, 1, 40, 10, 20, 30, 0, 0, 0),
     MkBuffer(129, 37, 35, 49, 1, 40, 255, 0, 0, 0, 0, 0),
     MkBuffer(129, 37, 35, 37, 1, 101, 10, 20, 30, 0, 0, 0),
     MkBuffer(129, 37, 36, 200, 1, 40, 10, 20, 30, 0, 0, 0),
     MkBuffer(129, 37, 35, 0, 1, 255, 0, 0, 255, 0, 0, 0)}

\* Bytes a failed read_exact obtained before it failed.
ShortLens == {0, STATUS_BUFFER_SIZE - 1}

\* Bytes a failed write_all got out before it failed: none, or all but one.
PartialLens(bytes) == {0, Len(bytes) - 1}

Zeros(n) == [i \in 1 .. n |-> 0]

\* ------------------------------------------------------------------- state
VARIABLES
    args,      \* the address and the optional port given to MagicHomeAPI::new
    caller,    \* what the session's user calls: actions, rgb inputs, how often
    connects,  \* the address:port of every TcpStream::connect made
    session,   \* "none" before MagicHomeAPI::new, then "open" or "failed"
    pc,        \* "idle" between calls, "running" inside one, "panicked"
    op,        \* the call in progress, or the last one
    stack,     \* activations of send_to_device, outermost first
    log,       \* every write_all / read_exact made on the connection
    opStart,   \* Len(log) when the current call was made
    result,    \* what the last call returned
    returned,  \* the results of the calls returned so far, in order
    nops,      \* calls made on the session
    inbound,   \* bytes the device has sent that no read has taken yet
    replies,   \* the 14-byte replies the device has sent, in order
    broken,    \* TRUE once a read_exact has failed: the stream has ended
    buffer,    \* input of a stand-alone Status::from
    decoded,   \* its outcome
    cbytes,    \* input of a stand-alone calc_checksum
    csum,      \* its result
    cframe,    \* cbytes with the checksum pushed
    cstage,    \* "start", "summed", "pushed"
    cli        \* the command-line program: its position, ACTION and output

connectVars == <<args, caller, connects>>
deviceVars == <<inbound, replies, broken>>
sessionVars ==
    <<connectVars, session, pc, op, stack, log, opStart, result, returned,
      nops, deviceVars>>
decodeVars == <<buffer, decoded>>
checksumVars == <<cbytes, csum, cframe, cstage>>
vars == <<sessionVars, decodeVars, checksumVars, cli>>

\* Result values.  status is an Option<Status>.
Ok(status) == [tag |-> "Ok", err |-> "", status |-> status]
Err(e) == [tag |-> "Err", err |-> e, status |-> <<>>]
Panicked == [tag |-> "Panic", err |-> "", status |-> <<>>]
NoResult == [tag |-> "None", err |-> "", status |-> <<>>]

NoOp == [fn |-> "none", action |-> "", rgb |-> <<>>]
Activation(message, stage, bytes) ==
    [message |-> message, stage |-> stage, bytes |-> bytes]
IoEvent(ev, bytes, ok) == [ev |-> ev, bytes |-> bytes, ok |-> ok]

Top == stack[Len(stack)]

\* Option<&str> port: <<>> is None, <<p>> is Some(p).
DefaultArgs == [address |-> "192.168.1.7", port |-> <<>>]

SessionFresh ==
    /\ connects = <<>>
    /\ inbound = <<>>
    /\ replies = <<>>
    /\ broken = FALSE
    /\ session = "none"
    /\ pc = "idle"
    /\ op = NoOp
    /\ stack = <<>>
    /\ log = <<>>
    /\ opStart = 0
    /\ result = NoResult
    /\ returned = <<>>
    /\ nops = 0

\* The program main: pc is "none" when the library is used without it.
Cli(at, action, stdout, stderr, code) ==
    [pc |-> at, action |-> action, stdout |-> stdout, stderr |-> stderr,
     code |-> code]

NoCli == Cli("none", "", <<>>, <<>>, <<>>)

\* A user that may call anything, MaxOps times.
AnyCaller == [actions |-> Actions, rgb |-> RgbInputs, limit |-> MaxOps]

\* A user that queries the status, switches on, starts a preset and calls
\* set_rgb, MaxSeqOps times.
SeqCaller ==
    [actions |-> {"Status", "On", "Chaos"}, rgb |-> {-1, 0},
     limit |-> MaxSeqOps]

SessionIdle == SessionFresh /\ args = DefaultArgs /\ caller = AnyCaller /\ cli = NoCli

DecodeIdle ==
    /\ buffer = <<>>
    /\ decoded = <<>>

ChecksumIdle ==
    /\ cbytes = <<>>
    /\ csum = 0
    /\ cframe = <<>>
    /\ cstage = "idle"

\* ----------------------------------------------------------------- session
\* The target built from the default port whatever port was given.
ConnectTargetDefaultOnly(a) == [address |-> a.address, port |-> DEFAULT_PORT]

\* port.unwrap_or(DEFAULT_PORT) and format!("{}:{}", address, port).
ConnectTarget(a) ==
    [address |-> a.address,
     port |-> IF a.port = <<>> THEN DEFAULT_PORT ELSE a.port[1]]

\* MagicHomeAPI::new: one TcpStream::connect; `?` returns its error.
new ==
    /\ session = "none"
    /\ connects' = Append(connects, ConnectTarget(args))
    /\ \E connected \in BOOLEAN :
          IF connected
          THEN /\ session' = "open"
               /\ result' = NoResult
          ELSE /\ session' = "failed"
               /\ result' = Err("connect")
    /\ UNCHANGED <<args, caller, pc, op, stack, log, opStart, returned, nops>>
    /\ UNCHANGED <<deviceVars, decodeVars, checksumVars, cli>>

\* A call site without `?`: the Err is dropped and execution goes on.
QuestionDropped(res) == FALSE

\* The `?` operator: an Err makes the enclosing function return it.
Question(res) == res.tag = "Err"

\* The outermost send_to_device returns res to the public function that
\* called it: perform_action returns it, set_rgb drops it and returns Ok(()).
ReturnToCaller(res) ==
    LET r == IF op.fn = "set_rgb" THEN Ok(<<>>) ELSE res
    IN /\ pc' = "idle"
       /\ stack' = <<>>
       /\ result' = r
       /\ returned' = Append(returned, r)

\* The running send_to_device returns res: to its caller, or, for the call
\* made for a preset, to the activation that wrote `self.send_to_device(..)?`.
Returns(res) ==
    IF Len(stack) = 1 THEN ReturnToCaller(res)
    ELSE IF Question(res) THEN ReturnToCaller(res)
    ELSE /\ stack' = <<[stack[1] EXCEPT !.stage = "resumed"]>>
         /\ UNCHANGED <<pc, result, returned>>

\* The chain with b tested before g.
ValidateBlueFirst(r, g, b) ==
    IF ~(r \in 0 .. 255) THEN "Invalid r value"
    ELSE IF ~(b \in 0 .. 255) THEN "Invalid b value"
    ELSE IF ~(g \in 0 .. 255) THEN "Invalid g value"
    ELSE ""

\* The else-if chain of set_rgb: the error of the first component outside
\* 0..=255, "" when all three are inside.
Validate(r, g, b) ==
    IF ~(r \in 0 .. 255) THEN "Invalid r value"
    ELSE IF ~(g \in 0 .. 255) THEN "Invalid g value"
    ELSE IF ~(b \in 0 .. 255) THEN "Invalid b value"
    ELSE ""

\* `x as u8` on an isize: the low 8 bits.
as_u8(x) == x % 256

\* A public call begins: it is counted and the log position is noted.
Enter(call) ==
    /\ session = "open"
    /\ pc = "idle"
    /\ nops < caller.limit
    /\ op' = call
    /\ opStart' = Len(log)
    /\ nops' = nops + 1
    /\ UNCHANGED <<session, log>>

\* set_rgb with the frame written before the components are validated.
set_rgb_WriteFirst(r, g, b) ==
    LET bytes == PushChecksum(FrameBody(
                     Message("Color", <<as_u8(r), as_u8(g), as_u8(b)>>)))
        res == IF Validate(r, g, b) # "" THEN Err(Validate(r, g, b))
               ELSE Ok(<<>>)
    IN /\ session = "open"
       /\ pc = "idle"
       /\ nops < caller.limit
       /\ op' = [fn |-> "set_rgb", action |-> "", rgb |-> <<r, g, b>>]
       /\ opStart' = Len(log)
       /\ nops' = nops + 1
       /\ log' = Append(log, IoEvent("write", bytes, TRUE))
       /\ result' = res
       /\ returned' = Append(returned, res)
       /\ UNCHANGED <<session, pc, stack>>

\* set_rgb(r, g, b) up to its call of send_to_device.
set_rgb(r, g, b) ==
    /\ Enter([fn |-> "set_rgb", action |-> "", rgb |-> <<r, g, b>>])
    /\ IF Validate(r, g, b) # ""
       THEN /\ result' = Err(Validate(r, g, b))
            /\ returned' = Append(returned, Err(Validate(r, g, b)))
            /\ UNCHANGED <<pc, stack>>
       ELSE /\ pc' = "running"
            /\ result' = NoResult
            /\ stack' = <<Activation(
                   Message("Color", <<as_u8(r), as_u8(g), as_u8(b)>>),
                   "start", <<>>)>>
            /\ UNCHANGED returned

SetRgb ==
    /\ \E r \in caller.rgb, g \in caller.rgb, b \in caller.rgb : set_rgb(r, g, b)
    /\ UNCHANGED <<connectVars, deviceVars, decodeVars, checksumVars, cli>>

\* perform_action(action) up to its call of send_to_device.
perform_action(action) ==
    /\ Enter([fn |-> "perform_action", action |-> action, rgb |-> <<>>])
    /\ pc' = "running"
    /\ result' = NoResult
    /\ stack' = <<Activation(ActionMessage(action), "start", <<>>)>>
    /\ UNCHANGED returned

PerformAction ==
    /\ \E action \in caller.actions : perform_action(action)
    /\ UNCHANGED <<connectVars, deviceVars, decodeVars, checksumVars, cli>>

\* The Function arm without its power-on call.
NeedsPowerOnNever(message) == FALSE

\* Message::Function arm: the device is turned on first.
NeedsPowerOn(message) == message.kind = "Function"

\* The test that never takes the read branch, and the one that always does.
ExpectsStatusNever(message) == FALSE
ExpectsStatusAlways(message) == TRUE

\* if let Message::Control(STATUS) = message.
ExpectsStatus(message) == message = Message("Control", STATUS)

\* send_to_device from its entry (or from the return of the power-on call)
\* to write_all: the match builds the bytes, the checksum is pushed.  For a
\* preset the match first calls send_to_device(Message::Control(ON)).
SendToDevice ==
    /\ pc = "running"
    /\ Top.stage \in {"start", "resumed"}
    /\ IF Top.stage = "start" /\ NeedsPowerOn(Top.message)
       THEN stack' = Append(stack,
                Activation(Message("Control", ON), "start", <<>>))
       ELSE stack' = [stack EXCEPT ![Len(stack)] =
                Activation(Top.message, "write",
                           PushChecksum(FrameBody(Top.message)))]
    /\ UNCHANGED <<session, pc, op, log, opStart, result, returned, nops>>
    /\ UNCHANGED <<connectVars, deviceVars, decodeVars, checksumVars, cli>>

\* self.0.write_all(bytes.as_slice())?  and what follows a write that
\* returned Ok: the read for a status query, Ok(None) otherwise.
WriteAll ==
    /\ pc = "running"
    /\ Top.stage = "write"
    /\ \E n \in PartialLens(Top.bytes) \cup {Len(Top.bytes)} :
          LET ok == n = Len(Top.bytes)
              io == IF ok THEN Ok(<<>>) ELSE Err("io")
          IN /\ log' = Append(log, IoEvent("write", SubSeq(Top.bytes, 1, n), ok))
             /\ IF Question(io) THEN Returns(io)
                ELSE IF ExpectsStatus(Top.message)
                THEN /\ stack' = [stack EXCEPT ![Len(stack)].stage = "read"]
                     /\ UNCHANGED <<pc, result, returned>>
                ELSE Returns(Ok(<<>>))
    /\ UNCHANGED <<session, op, opStart, nops>>
    /\ UNCHANGED <<connectVars, deviceVars, decodeVars, checksumVars, cli>>

\* The device answers a status frame it has received whole with 14 bytes
\* reporting its state at that moment.
StatusWrites ==
    {i \in 1 .. Len(log) :
        log[i] = IoEvent("write", PushChecksum(FrameBody(Message("Control", STATUS))), TRUE)}

DeviceReply ==
    /\ ~broken
    /\ Len(replies) < Cardinality(StatusWrites)
    /\ \E reply \in StatusReplies :
          /\ replies' = Append(replies, reply)
          /\ inbound' = inbound \o reply
    /\ UNCHANGED broken
    /\ UNCHANGED <<connectVars, session, pc, op, stack, log, opStart, result,
                   returned, nops>>
    /\ UNCHANGED <<decodeVars, checksumVars, cli>>

\* The byte counts a read_exact can end with: the whole buffer once the
\* stream holds that many bytes, or fewer when the stream ends or breaks
\* first (no read timeout is set, so nothing else makes it fail).
ReadLens ==
    {n \in ShortLens \cup {STATUS_BUFFER_SIZE} :
        /\ n <= Len(inbound)
        /\ broken => n = 0
        /\ n = STATUS_BUFFER_SIZE => ~broken}

\* self.0.read_exact(&mut buffer)?  into a zeroed buffer, then
\* Ok(Some(Status::from(&buffer))).  The bytes come off the front of the
\* inbound stream.
ReadExact ==
    /\ pc = "running"
    /\ Top.stage = "read"
    /\ \E n \in ReadLens :
          LET ok == n = STATUS_BUFFER_SIZE
              io == IF ok THEN Ok(<<>>) ELSE Err("io")
              got == SubSeq(inbound, 1, n)
              buf == got \o Zeros(STATUS_BUFFER_SIZE - n)
          IN /\ log' = Append(log, IoEvent("read", got, ok))
             /\ inbound' = SubSeq(inbound, n + 1, Len(inbound))
             /\ broken' = (broken \/ ~ok)
             /\ IF Question(io) THEN Returns(io)
                ELSE \E out \in StatusFrom(buf) :
                        IF out.panic
                        THEN /\ pc' = "panicked"
                             /\ result' = Panicked
                             /\ UNCHANGED <<stack, returned>>
                        ELSE Returns(Ok(out.status))
    /\ UNCHANGED replies
    /\ UNCHANGED <<connectVars, session, op, opStart, nops>>
    /\ UNCHANGED <<decodeVars, checksumVars, cli>>

Init == SessionIdle /\ DecodeIdle /\ ChecksumIdle

Next ==
    \/ new
    \/ SetRgb
    \/ PerformAction
    \/ SendToDevice
    \/ WriteAll
    \/ DeviceReply
    \/ ReadExact

Spec == Init /\ [][Next]_vars

\* The same session used by the caller that repeats queries.
InitSeq ==
    /\ SessionFresh
    /\ args = DefaultArgs
    /\ caller = SeqCaller
    /\ cli = NoCli
    /\ DecodeIdle
    /\ ChecksumIdle

SpecSeq == InitSeq /\ [][Next]_vars

\* ------------------------------------------- MagicHomeAPI::new on its own
AddressArgs == {"127.0.0.1", "192.168.1.7", "led.local", "badurl", "::1"}

PortArgs == {<<>>} \cup {<<p>> : p \in {"1", "80", "5577", "5578", "9994", "9999", "65535"}}

ConnectArgs == [address : AddressArgs, port : PortArgs]

InitConnect ==
    /\ SessionFresh
    /\ DecodeIdle
    /\ ChecksumIdle
    /\ caller = AnyCaller
    /\ cli = NoCli
    /\ args \in ConnectArgs

NextConnect == new

SpecConnect == InitConnect /\ [][NextConnect]_vars

\* --------------------------------------------- Status::from on its own
PowerBytes == {35, 36, 255}
ModeBytes == {97, 49, 37, 200}
SpeedBytes == {0, 40, 100, 101, 255}
ColorBytes == {10, 20}
\* Values for the bytes the decoder binds to `_` or leaves in `..`; both
\* would be read as a power or mode byte if an offset slipped.
OtherBytes == {35, 97}

Buffers ==
    {MkBuffer(b0, b1, power, mode, b4, speed, r, b, g, b9, fill, b13) :
        b0 \in OtherBytes, b1 \in OtherBytes, power \in PowerBytes,
        mode \in ModeBytes, b4 \in OtherBytes, speed \in SpeedBytes,
        r \in ColorBytes, b \in ColorBytes, g \in ColorBytes,
        b9 \in OtherBytes, fill \in OtherBytes, b13 \in OtherBytes}

InitDecode ==
    /\ SessionIdle
    /\ ChecksumIdle
    /\ buffer \in Buffers
    /\ decoded = <<>>

\* Status::from(&buffer) is applied; decoded holds its outcome.
Decode ==
    /\ decoded = <<>>
    /\ \E out \in StatusFrom(buffer) : decoded' = <<out>>
    /\ UNCHANGED buffer
    /\ UNCHANGED <<sessionVars, checksumVars, cli>>

NextDecode == Decode

SpecDecode == InitDecode /\ [][NextDecode]_vars

\* --------------------------------------------- calc_checksum on its own
ByteSample == {0, 1, 15, 128, 255}

\* The vector of tests::calculate_checksum.
TestBytes == <<49, 255, 255, 0, 255, 0, 15>>

ByteSeqs ==
    UNION {[1 .. n -> ByteSample] : n \in 0 .. MaxLen}
        \cup {FrameBody(ActionMessage(a)) : a \in Actions}
        \cup {TestBytes}

InitChecksum ==
    /\ SessionIdle
    /\ DecodeIdle
    /\ cbytes \in ByteSeqs
    /\ csum = 0
    /\ cframe = <<>>
    /\ cstage = "start"

\* let checksum = MagicHomeAPI::calc_checksum(bytes.as_slice()).
CalcChecksum ==
    /\ cstage = "start"
    /\ csum' = calc_checksum(cbytes)
    /\ cstage' = "summed"
    /\ UNCHANGED <<cbytes, cframe>>
    /\ UNCHANGED <<sessionVars, decodeVars, cli>>

\* bytes.push(checksum).
Push ==
    /\ cstage = "summed"
    /\ cframe' = Append(cbytes, csum)
    /\ cstage' = "pushed"
    /\ UNCHANGED <<cbytes, csum>>
    /\ UNCHANGED <<sessionVars, decodeVars, cli>>

NextChecksum == CalcChecksum \/ Push

SpecChecksum == InitChecksum /\ [][NextChecksum]_vars

\* ------------------------------------------------------------ properties
\* The I/O the current (or last) call made on the connection.
OpLog == SubSeq(log, opStart + 1, Len(log))

IsPrefix(p, q) == Len(p) <= Len(q) /\ p = SubSeq(q, 1, Len(p))

RECURSIVE SumBytes(_)
SumBytes(bytes) ==
    IF bytes = <<>> THEN 0 ELSE bytes[1] + SumBytes(Tail(bytes))

InRange(x) == 0 <= x /\ x <= 255

Presets == {"Chaos", "Ambient", "Rainbow"}

\* 71 23 0F and its checksum; 81 8A 8B and its checksum.
PowerOnFrame == <<113, 35, 15, 163>>
StatusFrame == <<129, 138, 139, 150>>

\* 61 preset speed 0F and its checksum, for the three presets.
PresetFrame(action) ==
    CASE action = "Chaos" -> <<97, 49, 5, 15, 166>>
      [] action = "Ambient" -> <<97, 37, 50, 15, 199>>
      [] action = "Rainbow" -> <<97, 37, 1, 15, 150>>

\* C1: a preset action writes the power-on frame as a write of its own that
\* completes before the preset frame is written, writes nothing else, reads
\* nothing, and, its writes done, returns None.
C1_PresetWritesPowerOnFirst ==
    (op.fn = "perform_action" /\ op.action \in Presets) =>
        /\ Len(OpLog) <= 2
        /\ \A i \in 1 .. Len(OpLog) : OpLog[i].ev = "write"
        /\ Len(OpLog) >= 1 => IsPrefix(OpLog[1].bytes, PowerOnFrame)
        /\ Len(OpLog) = 2 =>
              /\ OpLog[1] = IoEvent("write", PowerOnFrame, TRUE)
              /\ IsPrefix(OpLog[2].bytes, PresetFrame(op.action))
        /\ (pc = "idle" /\ result.tag = "Ok") =>
              /\ OpLog = <<IoEvent("write", PowerOnFrame, TRUE),
                           IoEvent("write", PresetFrame(op.action), TRUE)>>
              /\ result = Ok(<<>>)

C1_Witness ==
    /\ op.action = "Chaos"
    /\ pc = "idle"
    /\ result = Ok(<<>>)
    /\ Len(OpLog) = 2
    /\ OpLog[2].bytes = <<97, 49, 5, 15, 166>>

AllIoOk == \A i \in 1 .. Len(OpLog) : OpLog[i].ok

\* C2: perform(Status) writes exactly the status frame, reads exactly 14
\* bytes only after that write has completed, and returns Some(Status)
\* decoded from those 14 bytes.
C2_StatusRoundTrip ==
    (op.fn = "perform_action" /\ op.action = "Status") =>
        /\ Len(OpLog) <= 2
        /\ Len(OpLog) >= 1 =>
              /\ OpLog[1].ev = "write"
              /\ IsPrefix(OpLog[1].bytes, StatusFrame)
        /\ Len(OpLog) = 2 =>
              /\ OpLog[1] = IoEvent("write", StatusFrame, TRUE)
              /\ OpLog[2].ev = "read"
        /\ (Len(OpLog) = 2 /\ AllIoOk) =>
              /\ Len(OpLog[2].bytes) = 14
              /\ pc = "idle"
              /\ result.tag = "Ok"
              /\ Len(result.status) = 1
              /\ result.status[1].power = (OpLog[2].bytes[3] = 35)
              /\ result.status[1].color =
                    <<OpLog[2].bytes[7], OpLog[2].bytes[9], OpLog[2].bytes[8]>>

\* C3: every failure inside connect, set_rgb or perform (a validation
\* failure, a failed write, a failed or short read) is returned to the
\* caller as an error value.
C3_FailuresReturned ==
    /\ session = "failed" => result = Err("connect")
    /\ (op.fn = "set_rgb" /\ pc = "idle"
            /\ \E i \in 1 .. 3 : ~InRange(op.rgb[i])) => result.tag = "Err"
    /\ (op.fn # "none" /\ pc = "idle" /\ ~AllIoOk) => result.tag = "Err"

\* C4: in perform, the first write or read that does not complete is the
\* last thing done on the connection in that call, and the call returns an
\* I/O error and no Status.
C4_FirstIoFailureEndsPerform ==
    op.fn = "perform_action" =>
        \A i \in 1 .. Len(OpLog) :
            ~OpLog[i].ok =>
                /\ i = Len(OpLog)
                /\ pc = "idle"
                /\ result = Err("io")

C4_Witness ==
    /\ op.fn = "perform_action"
    /\ op.action = "Status"
    /\ Len(OpLog) = 2
    /\ OpLog[2].ev = "read"
    /\ Len(OpLog[2].bytes) = 13
    /\ result = Err("io")
    /\ Len(returned) = 2
    /\ returned[1] = Err("io")
    /\ log[1] = IoEvent("write", <<113, 35, 15>>, FALSE)
    /\ Len(log) = 3

\* C5: set_rgb reports the first of r, g, b (in that order) that lies
\* outside 0..255, and returns Ok exactly when all three lie inside.
C5_ValidationOrder ==
    (op.fn = "set_rgb" /\ pc = "idle") =>
        LET r == op.rgb[1]
            g == op.rgb[2]
            b == op.rgb[3]
        IN /\ ~InRange(r) => result = Err("Invalid r value")
           /\ (InRange(r) /\ ~InRange(g)) => result = Err("Invalid g value")
           /\ (InRange(r) /\ InRange(g) /\ ~InRange(b)) =>
                 result = Err("Invalid b value")
           /\ result.tag = "Ok" <=> (InRange(r) /\ InRange(g) /\ InRange(b))

C5_Witness ==
    /\ op.fn = "set_rgb"
    /\ op.rgb = <<255, -1, 256>>
    /\ pc = "idle"
    /\ result = Err("Invalid g value")

\* C6: a set_rgb call that returns a validation error has written and read
\* nothing: the connection's I/O is as it was before the call, and the
\* session is open and idle, ready for the next call.
C6_ValidationErrorLeavesConnection ==
    [][(nops' = nops + 1 /\ op'.fn = "set_rgb" /\ result'.tag = "Err") =>
          /\ log' = log
          /\ session' = "open"
          /\ pc' = "idle"
          /\ stack' = <<>>]_vars

C6_Witness ==
    /\ Len(returned) = 2
    /\ returned[1] = Err("Invalid b value")
    /\ op.fn = "set_rgb"
    /\ op.rgb = <<255, 0, 255>>
    /\ returned[2] = Ok(<<>>)
    /\ log = <<IoEvent("write", <<49, 255, 255, 0, 255, 0, 15, 61>>, TRUE)>>

DecodedStatus == decoded[1].status[1]

\* C7: mode byte 49 decodes to Strobe and 37 to Cycle, each with
\* speed = Some(100 - buffer[5]) for every speed byte; 97 decodes to Static
\* with no speed.
C7_ModeAndSpeed ==
    decoded # <<>> =>
        /\ buffer[4] = 49 =>
              /\ ~decoded[1].panic
              /\ DecodedStatus.mode = "strobe"
              /\ DecodedStatus.speed = <<100 - buffer[6]>>
        /\ buffer[4] = 37 =>
              /\ ~decoded[1].panic
              /\ DecodedStatus.mode = "cycle"
              /\ DecodedStatus.speed = <<100 - buffer[6]>>
        /\ buffer[4] = 97 =>
              /\ ~decoded[1].panic
              /\ DecodedStatus.mode = "static"
              /\ DecodedStatus.speed = <<>>

\* C8: calc_checksum(bytes) is the sum of the bytes modulo 256, for the
\* empty sequence and for sums above 255 alike, and the frame is the bytes
\* followed by the checksum of those bytes.
C8_ChecksumIsSumMod256 ==
    /\ cstage \in {"summed", "pushed"} => csum = SumBytes(cbytes) % 256
    /\ cstage = "pushed" =>
          /\ Len(cframe) = Len(cbytes) + 1
          /\ SubSeq(cframe, 1, Len(cbytes)) = cbytes
          /\ cframe[Len(cframe)] = SumBytes(cbytes) % 256

C8_Witness ==
    /\ cstage = "pushed"
    /\ cbytes = <<49, 255, 255, 0, 255, 0, 15>>
    /\ cframe = <<49, 255, 255, 0, 255, 0, 15, 61>>

\* The palette triple of a named colour action.
Palette(action) ==
    CASE action = "Red" -> <<255, 0, 0>>
      [] action = "Green" -> <<0, 255, 0>>
      [] action = "Blue" -> <<0, 0, 255>>
      [] action = "Lime" -> <<255, 255, 0>>
      [] action = "Yellow" -> <<255, 110, 0>>
      [] action = "Pink" -> <<255, 0, 170>>
      [] action = "Cyan" -> <<0, 255, 255>>
      [] action = "Purple" -> <<170, 0, 255>>
      [] action = "Orange" -> <<255, 24, 0>>
      [] action = "White" -> <<255, 255, 255>>

ColorActions ==
    {"Red", "Green", "Blue", "Lime", "Yellow", "Pink", "Cyan", "Purple",
     "Orange", "White"}

\* 31 r b g FF 00 0F and its checksum.
ColorFrame(c) ==
    <<49, c[1], c[3], c[2], 255, 0, 15, (49 + c[1] + c[3] + c[2] + 255 + 15) % 256>>

\* The current call is a colour command for the triple c.
ColorCall(c) ==
    \/ op.fn = "set_rgb" /\ op.rgb = c
          /\ InRange(c[1]) /\ InRange(c[2]) /\ InRange(c[3])
    \/ op.fn = "perform_action" /\ op.action \in ColorActions
          /\ c = Palette(op.action)

\* C9: set_rgb(r, g, b) with valid components, and each named colour with
\* its palette triple, makes one write and no read; the write is the frame
\* 31 r b g FF 00 0F checksum, whole when the write completes.
C9_ColorFrame ==
    \A c \in {op.rgb} \cup {Palette(a) : a \in ColorActions} :
        ColorCall(c) =>
            /\ Len(OpLog) <= 1
            /\ pc = "idle" => Len(OpLog) = 1
            /\ Len(OpLog) = 1 =>
                  /\ OpLog[1].ev = "write"
                  /\ IsPrefix(OpLog[1].bytes, ColorFrame(c))
                  /\ OpLog[1].ok => OpLog[1].bytes = ColorFrame(c)

C9_Witness ==
    /\ op.fn = "set_rgb"
    /\ op.rgb = <<0, 255, 0>>
    /\ pc = "idle"
    /\ OpLog = <<IoEvent("write", <<49, 0, 0, 255, 255, 0, 15, 62>>, TRUE)>>

\* The buffer with the bytes at offsets 0, 1, 4 and 9..13 set to zero.
ZeroUnused(b) ==
    <<0, 0, b[3], b[4], 0, b[6], b[7], b[8], b[9], 0, 0, 0, 0, 0>>

\* C10: for every 14-byte buffer, decoding yields a Status whose power is
\* buffer[2] == 35 and whose color is (buffer[6], buffer[8], buffer[7]),
\* and the bytes at offsets 0, 1, 4 and 9..13 do not influence it.
C10_PowerAndColor ==
    decoded # <<>> =>
        /\ ~decoded[1].panic
        /\ DecodedStatus.power = (buffer[3] = 35)
        /\ DecodedStatus.color = <<buffer[7], buffer[9], buffer[8]>>
        /\ decoded[1] \in StatusFrom(ZeroUnused(buffer))

\* C11: a status reply whose mode byte is none of 97, 49, 37 decodes to
\* mode Unknown with no speed, whatever its other bytes, and perform(Status)
\* returns Some of that Status, not an error.
C11_UnknownModeIsNotAnError ==
    (op.fn = "perform_action" /\ op.action = "Status" /\ Len(OpLog) = 2
        /\ OpLog[2].ok /\ OpLog[2].bytes[4] \notin {97, 49, 37}) =>
        /\ pc = "idle"
        /\ result.tag = "Ok"
        /\ Len(result.status) = 1
        /\ result.status[1].mode = "unknown"
        /\ result.status[1].speed = <<>>

C11_Witness ==
    /\ op.action = "Status"
    /\ Len(OpLog) = 2
    /\ OpLog[2].ok
    /\ OpLog[2].bytes[4] = 0
    /\ OpLog[2].bytes[6] = 255
    /\ result.tag = "Ok"
    /\ result.status[1].mode = "unknown"

\* The wire table: the bytes of each action's frame before the checksum.
WireBody(action) ==
    CASE action = "Status" -> <<129, 138, 139>>
      [] action = "On" -> <<113, 35, 15>>
      [] action = "Off" -> <<113, 36, 15>>
      [] action = "Chaos" -> <<97, 49, 5, 15>>
      [] action = "Ambient" -> <<97, 37, 50, 15>>
      [] action = "Rainbow" -> <<97, 37, 1, 15>>
      [] OTHER -> <<49, Palette(action)[1], Palette(action)[3],
                    Palette(action)[2], 255, 0, 15>>

WireFrame(action) == Append(WireBody(action), SumBytes(WireBody(action)) % 256)

WireLen(action) ==
    IF action \in {"Status", "On", "Off"} THEN 4
    ELSE IF action \in Presets THEN 5
    ELSE 8

\* The position, among the writes of a perform call, of the action's frame.
FrameAt(action) == IF action \in Presets THEN 2 ELSE 1

\* C12: perform(action) writes, for each of the 16 actions, the frame of the
\* wire table followed by its checksum: 4 bytes for Status, On and Off, 5
\* for a preset, 8 for a named colour.
C12_DispatchTable ==
    op.fn = "perform_action" =>
        LET k == FrameAt(op.action)
        IN /\ Len(OpLog) >= k =>
                 /\ OpLog[k].ev = "write"
                 /\ IsPrefix(OpLog[k].bytes, WireFrame(op.action))
                 /\ OpLog[k].ok =>
                       /\ OpLog[k].bytes = WireFrame(op.action)
                       /\ Len(OpLog[k].bytes) = WireLen(op.action)
           /\ (pc = "idle" /\ result.tag = "Ok") =>
                 /\ Len(OpLog) >= k
                 /\ OpLog[k].ok

C12_Witness ==
    /\ op.action = "Ambient"
    /\ pc = "idle"
    /\ Len(OpLog) = 2
    /\ OpLog[2] = IoEvent("write", <<97, 37, 50, 15, 199>>, TRUE)

\* C14: construction makes one connect, to the given address and the given
\* port or 5577; when it fails an error is returned, nothing is retried and
\* nothing can be done on a session; when it succeeds there is a session.
C14_OneConnectAttempt ==
    /\ session = "none" => connects = <<>>
    /\ session # "none" =>
          connects = <<[address |-> args.address,
                        port |-> IF args.port = <<>> THEN "5577"
                                 ELSE args.port[1]]>>
    /\ session = "failed" =>
          /\ result = Err("connect")
          /\ log = <<>>
          /\ ~ENABLED Next
    /\ session = "open" =>
          /\ result.tag # "Err"
          /\ ENABLED PerformAction

C14_Witness ==
    /\ session = "failed"
    /\ args = [address |-> "badurl", port |-> <<>>]
    /\ connects = <<[address |-> "badurl", port |-> "5577"]>>

\* The device reported the same state in every reply it sent.
DeviceUnchanged ==
    \A i \in 1 .. Len(replies), j \in 1 .. Len(replies) : replies[i] = replies[j]

\* The calls that returned a Status.
StatusResults == {i \in 1 .. Len(returned) : returned[i].status # <<>>}

\* C13: status queries on one session against a device whose state does not
\* change return identical Status values, whatever other commands were
\* issued before or between them.
C13_RepeatedStatusIdentical ==
    DeviceUnchanged =>
        \A i \in StatusResults, j \in StatusResults : returned[i] = returned[j]

C13_Witness ==
    /\ Len(returned) = 3
    /\ returned[1].status # <<>>
    /\ returned[2] = Ok(<<>>)
    /\ returned[3].status # <<>>
    /\ returned[1] = returned[3]
    /\ Len(replies) = 2
    /\ DeviceUnchanged

\* The kind of command a frame belongs to, read off its first byte.
KindOfFrame(bytes) ==
    IF bytes[1] = 49 THEN "Color"
    ELSE IF bytes[1] = 97 THEN "Function"
    ELSE "Control"

CompleteWrites == {i \in 1 .. Len(log) : log[i].ev = "write" /\ log[i].ok}

\* C15 as stated: the length of a frame (header, payload and checksum) is 7
\* bytes for Color, 4 for Function and 3 to 4 for Control.
C15_FrameLengthsAsStated ==
    \A i \in CompleteWrites :
        /\ KindOfFrame(log[i].bytes) = "Color" => Len(log[i].bytes) = 7
        /\ KindOfFrame(log[i].bytes) = "Function" => Len(log[i].bytes) = 4
        /\ KindOfFrame(log[i].bytes) = "Control" => Len(log[i].bytes) \in {3, 4}

\* C15, amended: the length of a frame (header, payload and checksum) is
\* fixed by the command kind: 8 bytes for Color, 5 for Function, 4 for
\* every Control frame.
C15_FrameLengths ==
    /\ \A i \in CompleteWrites :
          /\ KindOfFrame(log[i].bytes) = "Color" => Len(log[i].bytes) = 8
          /\ KindOfFrame(log[i].bytes) = "Function" => Len(log[i].bytes) = 5
          /\ KindOfFrame(log[i].bytes) = "Control" => Len(log[i].bytes) = 4
    /\ \A k \in 1 .. Len(stack) :
          stack[k].stage \in {"write", "read"} =>
              Len(stack[k].bytes) =
                  CASE stack[k].message.kind = "Color" -> 8
                    [] stack[k].message.kind = "Function" -> 5
                    [] stack[k].message.kind = "Control" -> 4

C15_Witness ==
    /\ op.action = "Pink"
    /\ pc = "idle"
    /\ OpLog = <<IoEvent("write", <<49, 255, 170, 0, 255, 0, 15, 232>>, TRUE)>>

IsStatusWrite(e) == e = IoEvent("write", StatusFrame, TRUE)

\* C16: a status frame write is followed at once by its own read: nothing
\* else is written between them, every read follows a status write, and at
\* most one reply is outstanding.
C16_StatusWriteThenRead ==
    /\ \A i \in 1 .. Len(log) :
          /\ IsStatusWrite(log[i]) =>
                IF i = Len(log)
                THEN pc = "running" /\ Len(stack) = 1 /\ Top.stage = "read"
                ELSE log[i + 1].ev = "read"
          /\ log[i].ev = "read" => (i > 1 /\ IsStatusWrite(log[i - 1]))
    /\ Cardinality({i \in 1 .. Len(log) : IsStatusWrite(log[i])})
          - Cardinality({i \in 1 .. Len(log) : log[i].ev = "read"}) \in {0, 1}

C16_Witness ==
    /\ Len(log) = 5
    /\ IsStatusWrite(log[1])
    /\ log[2].ev = "read" /\ log[2].ok
    /\ log[3] = IoEvent("write", PowerOnFrame, TRUE)
    /\ IsStatusWrite(log[4])
    /\ log[5].ev = "read" /\ log[5].ok

\* C17: Status::from returns a Status for every 14-byte buffer and never
\* aborts.
C17_DecodeIsTotal ==
    decoded # <<>> =>
        /\ ~decoded[1].panic
        /\ Len(decoded[1].status) = 1

Reads == {i \in 1 .. Len(log) : log[i].ev = "read"}

RECURSIVE ReadBytes(_)
\* The bytes the reads in the first n log entries took, in order.
ReadBytes(n) ==
    IF n = 0 THEN <<>>
    ELSE IF log[n].ev = "read" THEN ReadBytes(n - 1) \o log[n].bytes
    ELSE ReadBytes(n - 1)

RECURSIVE Flatten(_)
Flatten(seqs) == IF seqs = <<>> THEN <<>> ELSE seqs[1] \o Flatten(Tail(seqs))

Consumed == Len(ReadBytes(Len(log)))

IsStatusCall == op.fn = "perform_action" /\ op.action = "Status"

\* C18 as stated: only a status query reads; after any sequence of
\* operations the inbound bytes consumed are 14 times the number of status
\* queries whose read completed, and the reads take the oldest unread bytes.
C18_ConsumedAsStated ==
    /\ ~IsStatusCall => \A i \in 1 .. Len(OpLog) : OpLog[i].ev # "read"
    /\ Consumed = 14 * Cardinality({i \in Reads : log[i].ok})
    /\ ReadBytes(Len(log)) \o inbound = Flatten(replies)

\* C18, amended: only a status query reads; a read that completes takes
\* exactly 14 bytes, the oldest unread ones, and the Status is decoded from
\* them; a read that fails takes fewer than 14; so after any sequence of
\* operations in which no read failed, the bytes consumed are 14 times the
\* number of status reads completed.
C18_Consumed ==
    /\ ~IsStatusCall => \A i \in 1 .. Len(OpLog) : OpLog[i].ev # "read"
    /\ \A i \in Reads :
          IF log[i].ok THEN Len(log[i].bytes) = 14 ELSE Len(log[i].bytes) < 14
    /\ ReadBytes(Len(log)) \o inbound = Flatten(replies)
    /\ (\A i \in Reads : log[i].ok) =>
          Consumed = 14 * Cardinality(Reads)
    /\ (IsStatusCall /\ pc = "idle" /\ result.tag = "Ok") =>
          /\ Len(OpLog) = 2
          /\ result.status[1].power = (OpLog[2].bytes[3] = 35)
          /\ result.status[1].color =
                <<OpLog[2].bytes[7], OpLog[2].bytes[9], OpLog[2].bytes[8]>>

C18_Witness ==
    /\ Len(returned) = 3
    /\ returned[1].status # <<>>
    /\ returned[2] = Ok(<<>>)
    /\ returned[3].status # <<>>
    /\ Consumed = 28
    /\ inbound = <<>>

WritesOfCall == {i \in 1 .. Len(OpLog) : OpLog[i].ev = "write"}
ReadsOfCall == {i \in 1 .. Len(OpLog) : OpLog[i].ev = "read"}

\* C19: a call makes at most two writes and one read, send_to_device is at
\* most two deep, a call that is not a status query waits for no data, and
\* every call goes on until it returns.
C19_BoundedIoAndReturn ==
    /\ Cardinality(WritesOfCall) <= 2
    /\ Cardinality(ReadsOfCall) <= 1
    /\ Len(stack) <= 2
    /\ ~IsStatusCall => ReadsOfCall = {}
    /\ pc = "running" => ENABLED (SendToDevice \/ WriteAll \/ ReadExact)
    /\ pc \in {"idle", "running"}

\* ------------------------------------------------------------ fn main
\* The arm of `match action` taken for an ACTION.
Arm(action) ==
    CASE action = "On" -> "on"
      [] action = "Off" -> "off"
      [] action = "Status" -> "status"
      [] OTHER -> "set_mode"

\* Before the match main calls nothing on the session.
NotCalling == [actions |-> {}, rgb |-> {}, limit |-> 0]

\* turn_on, turn_off, get_status and set_mode(action): one perform of the
\* action on the session.
MainCaller(action) == [actions |-> {action}, rgb |-> {}, limit |-> 1]

\* fn print_status: the lines printed for a Status.
print_status(status) ==
    <<IF status.power THEN "Power: on" ELSE "Power: off", "Color", "Mode">>
        \o (IF status.speed # <<>> THEN <<"Speed">> ELSE <<>>)

\* process::exit(1) after eprintln!(line).
ExitFailure(line) ==
    [cli EXCEPT !.pc = "exited", !.stderr = Append(@, line), !.code = <<1>>]

\* A panic: the message goes to stderr and the process ends with 101.
ExitPanic ==
    [cli EXCEPT !.pc = "exited", !.stderr = Append(@, "panicked"),
                !.code = <<101>>]

\* println!("Performed action: {}", action) after the lines the arm
\* printed, and the end of main.
ExitPerformed(lines) ==
    [cli EXCEPT !.pc = "exited",
                !.stdout = (@ \o lines) \o <<"Performed action">>,
                !.code = <<0>>]

\* MagicHomeAPI::new(address, port).unwrap_or_else(..) has returned.
MainConnected ==
    /\ cli.pc = "start"
    /\ session # "none"
    /\ IF session = "failed"
       THEN /\ cli' = ExitFailure("Failed Creating api")
            /\ UNCHANGED caller
       ELSE /\ cli' = [cli EXCEPT !.pc = "called",
                                  !.stdout = Append(@, "Connection successful")]
            /\ caller' = MainCaller(cli.action)
    /\ UNCHANGED <<args, connects, session, pc, op, stack, log, opStart,
                   result, returned, nops>>
    /\ UNCHANGED <<deviceVars, decodeVars, checksumVars>>

\* The call made in the match arm has ended: the on and off arms have no
\* result to look at, the status arm prints the Status it got, the last arm
\* exits on Err.
MainReturned ==
    /\ cli.pc = "called"
    /\ nops = 1
    /\ pc \in {"idle", "panicked"}
    /\ cli' =
          IF pc = "panicked" THEN ExitPanic
          ELSE CASE Arm(cli.action) \in {"on", "off"} -> ExitPerformed(<<>>)
                 [] Arm(cli.action) = "status" ->
                      ExitPerformed(IF result.status # <<>>
                                    THEN print_status(result.status[1])
                                    ELSE <<>>)
                 [] OTHER ->
                      IF result.tag = "Err"
                      THEN ExitFailure("Failed changing mode")
                      ELSE ExitPerformed(<<>>)
    /\ UNCHANGED <<sessionVars, decodeVars, checksumVars>>

InitMain ==
    /\ SessionFresh
    /\ args = DefaultArgs
    /\ caller = NotCalling
    /\ DecodeIdle
    /\ ChecksumIdle
    /\ cli \in {Cli("start", action, <<>>, <<>>, <<>>) : action \in Actions}

NextMain ==
    \/ new
    \/ MainConnected
    \/ PerformAction
    \/ SendToDevice
    \/ WriteAll
    \/ DeviceReply
    \/ ReadExact
    \/ MainReturned

SpecMain == InitMain /\ [][NextMain]_vars

\* C20: in the command-line program a failed construction or a failed
\* command, whatever the action, puts the error on stderr and exits
\* non-zero; 'Performed action' is printed only when the command did not
\* fail; one action is issued per run and none after a failed connect.
C20_CliReportsFailure ==
    /\ (cli.pc = "exited" /\ session = "failed") =>
          /\ cli.code # <<0>>
          /\ cli.stderr # <<>>
    /\ (cli.pc = "exited" /\ result.tag \in {"Err", "Panic"}) =>
          /\ cli.code # <<0>>
          /\ cli.stderr # <<>>
    /\ (\E i \in 1 .. Len(cli.stdout) : cli.stdout[i] = "Performed action") =>
          result.tag = "Ok"
    /\ nops <= 1
    /\ session = "failed" => (nops = 0 /\ log = <<>>)

====
